---- MODULE Spec2Model ----
(***************************************************************************)
(* Model of the bulwark adaptive throttle (src/adaptive.go): the windowed  *)
(* request/accept counters per priority, the rejection probability, and    *)
(* the Throttle call with its local-rejection, fallback and outcome        *)
(* classification paths, under concurrent callers; the priority carried by *)
(* a context; and the priority ranges with their validators                *)
(* (src/priority.go, src/validator.go).                                    *)
(***************************************************************************)
EXTENDS Integers, Sequences, FiniteSets, TLC

\* ------------------------------------------------------------------ bounds
\* total number of Throttle calls started in one behaviour
MaxCalls == 2
\* last clock reading, in ticks
MaxTime == 1
\* ticks per bucket (opts.d / 10)
Width == 1

\* ----------------------------------------------------------- configuration
\* goroutines calling Throttle on the one throttle
NumCallers == 2
\* the priorities argument of NewAdaptiveThrottle
NumPriorities == 2

\* ------------------------------------------------------- program constants
\* bucket count of every windowedCounter
Buckets == 10
\* the default accept multiplier
K == 2

Callers == 1..NumCallers
Ranks == 0..(NumPriorities - 1)
BucketIdx == 0..(Buckets - 1)
\* ctx.Value(activePriorityKey) when no priority is attached
NoPriority == -1
\* clock advances: one tick, or a whole window at once
TickSteps == {1, Buckets * Width}
\* choices of opts.k
KChoices == {K}
\* choices of opts.minRate * opts.d.Seconds()
MinPerWindowChoices == {1}

\* ------------------------------------------------------------------ errors
\* An error value: a plain error named e, or errRejected{inner: e}.
Err(name) == [wrapped |-> FALSE, e |-> name]
Nil == Err("nil")
\* faults.Unavailable(0): a distress error
ErrUnavailable == Err("unavailable")
\* errors.New("standard error") / faults.NotFound: a benign error
ErrStandard == Err("standard")
DefaultClientSideRejectionError == Err("clientSideRejection")
PlainErrors == {ErrUnavailable, ErrStandard, DefaultClientSideRejectionError}

RejectedError(err) == [wrapped |-> TRUE, e |-> err.e]
\* errRejected.Unwrap
Unwrap(err) == Err(err.e)
\* what a work function may return
Errors == {Nil} \cup PlainErrors
          \cup {RejectedError(x) : x \in {Nil, ErrUnavailable, ErrStandard}}
\* what a fallback may return
FallbackErrors == {Nil, ErrStandard, DefaultClientSideRejectionError}

\* errors.Is(err, target) for a comparable target and error types without an
\* Is method: == on the values along the Unwrap chain.
RECURSIVE ErrorsIs(_, _)
ErrorsIs(err, target) ==
    IF err = Nil \/ target = Nil THEN err = target
    ELSE IF err = target THEN TRUE
    ELSE IF err.wrapped
         THEN IF Unwrap(err) = Nil THEN FALSE ELSE ErrorsIs(Unwrap(err), target)
         ELSE FALSE

\* faults.IsUnavailable(err) || faults.IsResourceExhausted(err): the faults
\* predicates look for the failure along the Unwrap chain
DefaultRejectedError(err) ==
    IF err.wrapped
    THEN Unwrap(err) \in {ErrUnavailable, DefaultClientSideRejectionError}
    ELSE err \in {ErrUnavailable, DefaultClientSideRejectionError}

\* the values the global IsRejectedError may hold: the default, or an
\* override that rejects by default
ClassifierChoices == {"default", "rejectAll"}

ApplyClassifier(cls, err) ==
    IF cls = "default" THEN DefaultRejectedError(err) ELSE TRUE

\* -------------------------------------------------------- windowedCounter
ZeroBuckets == [i \in BucketIdx |-> 0]

newWindowedCounter(now) == [last |-> now, head |-> 0, buckets |-> ZeroBuckets]

RECURSIVE SumUpTo(_, _)
SumUpTo(b, i) == IF i < 0 THEN 0 ELSE b[i] + SumUpTo(b, i - 1)

\* the instantaneous value: the sum over all buckets
CounterValue(c) == SumUpTo(c.buckets, Buckets - 1)

Age_Signed(c, t) == (t - c.last) \div Width

\* whole bucket widths elapsed since the head bucket started; a time earlier
\* than the last observed one counts as the same bucket
Age(c, t) == IF t < c.last THEN 0 ELSE (t - c.last) \div Width

Rotate_KeepsExpired(c, t) ==
    LET age == Age(c, t) IN
    IF age >= Buckets
    THEN [last |-> t, head |-> 0, buckets |-> ZeroBuckets]
    ELSE [last |-> c.last + age * Width,
          head |-> (c.head + age) % Buckets,
          buckets |-> c.buckets]

\* lazy rotation done by get and add
Rotate(c, t) ==
    LET age == Age(c, t) IN
    IF age >= Buckets
    THEN [last |-> t, head |-> 0, buckets |-> ZeroBuckets]
    ELSE [last |-> c.last + age * Width,
          head |-> (c.head + age) % Buckets,
          buckets |-> [i \in BucketIdx |->
              IF ((i - c.head - 1) % Buckets) < age THEN 0 ELSE c.buckets[i]]]

CounterGet(c, t) == CounterValue(Rotate(c, t))

CounterAdd(c, t, n) ==
    LET r == Rotate(c, t) IN [r EXCEPT !.buckets[r.head] = @ + n]

\* --------------------------------------------------------------- priority
\* A context.Context is the chain of its bindings, the most recent last.
activePriorityKey == "priorityKey"
\* a key of some other package
OtherKey == "otherKey"
\* context.Background()
Background == <<>>

\* context.WithValue(ctx, key, val)
WithValue(ctx, key, val) == Append(ctx, [key |-> key, val |-> val])

RECURSIVE Value(_, _)
\* ctx.Value(key) with the outcome of the type assertion: the most recent
\* binding of key, or not ok when the chain has none
Value(ctx, key) ==
    IF ctx = <<>> THEN [ok |-> FALSE, val |-> NoPriority]
    ELSE LET b == ctx[Len(ctx)]
         IN IF b.key = key THEN [ok |-> TRUE, val |-> b.val]
            ELSE Value(SubSeq(ctx, 1, Len(ctx) - 1), key)

WithPriority(ctx, priority) == WithValue(ctx, activePriorityKey, priority)


\* variant: the default wins over the priority of the context
PriorityFromContext_DefaultWins(ctx, defaultPriority) == defaultPriority

\* variant: the oldest binding of the key is the one returned
PriorityFromContext_OldestBinding(ctx, defaultPriority) ==
    LET bound == {i \in 1..Len(ctx) : ctx[i].key = activePriorityKey}
    IN IF bound = {} THEN defaultPriority
       ELSE ctx[CHOOSE i \in bound : \A j \in bound : i <= j].val

PriorityFromContext(ctx, defaultPriority) ==
    LET v == Value(ctx, activePriorityKey)
    IN IF v.ok THEN v.val ELSE defaultPriority

\* ------------------------------------------------------------- validation
\* the named priorities
High == 0
Low == 3
\* faults.Bad(&faults.FieldViolation{Field: "priority", ...})
ErrBadPriority == Err("badPriority")
\* the ValidatorFunc values of the package
Validators == {"OnInvalidPriorityPanic", "OnInvalidPriorityAdjust", "OnInvalidPriorityError"}

\* NewPriorityRange(lowest, WithRangeValidator(v))
NewPriorityRange(lowest, v) == [lowest |-> lowest, highest |-> High, validate |-> v]
\* NewPriorityRange(Low): OnInvalidPriorityAdjust is the default validator
StandardPriorities == NewPriorityRange(Low, "OnInvalidPriorityAdjust")

\* PriorityRange.Lowest
Lowest(r) == r.lowest
\* PriorityRange.Range
Range(r) == (r.lowest - r.highest) + 1

\* what a validator does: it panics, or it returns (p, err)
Outcome(panicked, p, err) == [panicked |-> panicked, p |-> p, err |-> err]

OnInvalidPriorityPanic(p, priorities) ==
    IF p >= Lowest(priorities) THEN Outcome(TRUE, p, Nil)
    ELSE Outcome(FALSE, p, Nil)

OnInvalidPriorityAdjust(p, priorities) ==
    IF p <= Lowest(priorities) THEN Outcome(FALSE, p, Nil)
    ELSE Outcome(FALSE, Lowest(priorities), Nil)

OnInvalidPriorityError(p, priorities) ==
    IF p > Lowest(priorities) THEN Outcome(FALSE, p, ErrBadPriority)
    ELSE Outcome(FALSE, p, Nil)

\* PriorityRange.Validate: r.validate(p, r)
Validate(r, p) ==
    CASE r.validate = "OnInvalidPriorityPanic" -> OnInvalidPriorityPanic(p, r)
      [] r.validate = "OnInvalidPriorityAdjust" -> OnInvalidPriorityAdjust(p, r)
      [] r.validate = "OnInvalidPriorityError" -> OnInvalidPriorityError(p, r)

\* -------------------------------------------------------------------- state
VARIABLES
    clock,            \* what Now() returns
    k,                \* AdaptiveThrottle.k
    minPerWindow,     \* AdaptiveThrottle.minPerWindow
    requests,         \* AdaptiveThrottle.requests, one counter per rank
    accepts,          \* AdaptiveThrottle.accepts, one counter per rank
    IsRejectedError,  \* the global classifier
    opts,             \* what NewAdaptiveThrottle was called with
    history,          \* per bucket start-time, what the counter specification added there
    mutex,            \* AdaptiveThrottle.m: the caller holding it, or Free
    call,             \* per caller: the Throttle call in progress
    calls             \* number of calls started

vars == <<clock, k, minPerWindow, requests, accepts, IsRejectedError, opts, history, mutex, call, calls>>

\* sync.Mutex unlocked
Free == 0

\* the counter specification adds and reads at times up to two buckets past
\* a whole window
MaxTimeC == (Buckets + 2) * Width
StartTimes == 0..MaxTimeC
\* nothing added yet
NoHistory == [s \in StartTimes |-> 0]

\* the functions handed to WithAcceptedErrors: none, or one that accepts the
\* distress error
AcceptedErrorsChoices == {"none", "acceptUnavailable"}

\* fn(err) of the function handed to WithAcceptedErrors
IsErrorAccepted(fn, err) == fn = "acceptUnavailable" /\ err = ErrUnavailable

\* the option sets opts.isErrorAccepted
WithAcceptedErrors(o, fn) == [o EXCEPT !.isErrorAccepted = fn]

\* the options of a construction without WithAcceptedErrors, for the range of
\* which the throttle is given the size
DefaultOptions ==
    [isErrorAccepted |-> "none",
     priorities |-> NewPriorityRange(NumPriorities - 1, "OnInvalidPriorityAdjust")]

IdleCall ==
    [pc |-> "idle", entry |-> "Throttle", ctx |-> Background, def |-> 0, priority |-> 0,
     t0 |-> 0, now |-> 0,
     hasFallback |-> FALSE, fnCalls |-> 0, fbCalls |-> 0,
     fbArgs |-> <<>>, fbRet |-> Nil, err |-> Nil, ret |-> Nil,
     local |-> FALSE, adds |-> <<>>,
     range |-> StandardPriorities, given |-> 0, verr |-> Nil,
     i |-> 0, req |-> 0, acc |-> 0, reads |-> <<>>,
     prob |-> [num |-> 0, den |-> 1]]

\* NewAdaptiveThrottle
Init ==
    /\ clock = 0
    /\ k \in KChoices
    /\ minPerWindow \in MinPerWindowChoices
    /\ requests = [p \in Ranks |-> newWindowedCounter(0)]
    /\ accepts = [p \in Ranks |-> newWindowedCounter(0)]
    /\ IsRejectedError \in ClassifierChoices
    /\ call = [c \in Callers |-> IdleCall]
    /\ opts = DefaultOptions
    /\ mutex = Free
    /\ history = NoHistory
    /\ calls = 0


\* ------------------------------------------------------------ probability
\* clamp(min=0, x, max=1) on x = num/den as float64 computes it: a zero
\* denominator gives +Inf, -Inf or NaN, and NaN passes both comparisons.
clamp(x) ==
    LET neg == \/ (x.den > 0 /\ x.num < 0)
               \/ (x.den < 0 /\ x.num > 0)
               \/ (x.den = 0 /\ x.num < 0)
        big == \/ (x.den > 0 /\ x.num > x.den)
               \/ (x.den < 0 /\ x.num < x.den)
               \/ (x.den = 0 /\ x.num > 0)
    IN IF neg THEN [num |-> 0, den |-> 1]
       ELSE IF big THEN [num |-> 1, den |-> 1]
       ELSE IF x.den < 0 THEN [num |-> 0 - x.num, den |-> 0 - x.den]
       ELSE x

RECURSIVE HigherUnaccepted(_, _, _, _)

RECURSIVE HigherUnaccepted_RequestsOnly(_, _, _, _)
\* variant: the loop adds the requests of the higher priorities, accepted or
\* not
HigherUnaccepted_RequestsOnly(req, acc, p, now) ==
    IF p = 0 THEN 0
    ELSE CounterGet(req[p - 1], now)
         + HigherUnaccepted_RequestsOnly(req, acc, p - 1, now)

\* variant: the loop over the higher priorities never runs
HigherUnaccepted_None(req, acc, p, now) == 0

RECURSIVE HigherUnaccepted_EveryRank(_, _, _, _)
\* variant: the loop runs over every rank, the less important ones included
HigherUnaccepted_EveryRank(req, acc, p, now) ==
    IF p = 0
    THEN CounterGet(req[NumPriorities - 1], now) - CounterGet(acc[NumPriorities - 1], now)
    ELSE (CounterGet(req[p - 1], now) - CounterGet(acc[p - 1], now))
         + HigherUnaccepted_EveryRank(req, acc, p - 1, now)

\* the loop over i < p: sum of requests[i].get(now) - accepts[i].get(now)
HigherUnaccepted(req, acc, p, now) ==
    IF p = 0 THEN 0
    ELSE (CounterGet(req[p - 1], now) - CounterGet(acc[p - 1], now))
         + HigherUnaccepted(req, acc, p - 1, now)

rejectionProbability(req, acc, kk, mpw, p, now) ==
    LET r == CounterGet(req[p], now) + HigherUnaccepted(req, acc, p, now)
        a == CounterGet(acc[p], now)
    IN clamp([num |-> r - kk * a, den |-> r + mpw])

\* the counters after the get calls of rejectionProbability: every rank up to
\* p is rotated to now
RotatedUpTo(ctr, p, now) ==
    [i \in Ranks |-> IF i <= p THEN Rotate(ctr[i], now) ELSE ctr[i]]

IsNaN(x) == x.den = 0
\* some u in [0, 1) has u < x
CanDrawBelow(x) == ~IsNaN(x) /\ x.num > 0
\* some u in [0, 1) has u >= x
CanDrawAtOrAbove(x) == IsNaN(x) \/ x.num < x.den

\* ---------------------------------------------------------------- actions
Tick(d, maxTime) ==
    /\ clock + d <= maxTime
    /\ clock' = clock + d
    /\ UNCHANGED <<k, minPerWindow, requests, accepts, IsRejectedError, opts, history, mutex, call, calls>>

\* Throttle is entered: the priority is resolved and Now() is sampled
Begin(c, ctx, def, fb, maxCalls) ==
    /\ call[c].pc = "idle"
    /\ calls < maxCalls
    /\ calls' = calls + 1
    /\ call' = [call EXCEPT ![c] =
          [IdleCall EXCEPT !.pc = "decide",
                           !.ctx = ctx, !.def = def,
                           !.priority = PriorityFromContext(ctx, def),
                           !.t0 = clock, !.now = clock, !.hasFallback = fb]]
    /\ UNCHANGED <<clock, k, minPerWindow, requests, accepts, IsRejectedError, opts, history, mutex>>

\* t.requests[int(p)] of rejectionProbability for a p that is no index of the
\* slices: the goroutine panics after t.m.Lock(), and nothing unlocks
IndexPanic(c) ==
    /\ call[c].pc = "decide"
    /\ mutex = Free
    /\ call[c].priority \notin Ranks
    /\ mutex' = c
    /\ call' = [call EXCEPT ![c].pc = "panicked"]
    /\ UNCHANGED <<clock, k, minPerWindow, requests, accepts, IsRejectedError, opts, history, calls>>

\* Throttle[T] or WithAdaptiveThrottle is entered: Throttle[T] resolves the
\* priority from the context, WithAdaptiveThrottle is handed it
BeginEntry(c, entry, ctx, priority, maxCalls) ==
    /\ call[c].pc = "idle"
    /\ calls < maxCalls
    /\ calls' = calls + 1
    /\ call' = [call EXCEPT ![c] =
          [IdleCall EXCEPT !.pc = "decide", !.entry = entry,
                           !.ctx = ctx, !.def = priority,
                           !.priority = IF entry = "WithAdaptiveThrottle"
                                        THEN priority
                                        ELSE PriorityFromContext(ctx, priority),
                           !.t0 = clock, !.now = clock]]
    /\ UNCHANGED <<clock, k, minPerWindow, requests, accepts, IsRejectedError, opts, history, mutex>>

\* rejectionProbability under the mutex, then the random draw
Decide(c, reject) ==
    LET p == call[c].priority
        now == call[c].now
        prob == rejectionProbability(requests, accepts, k, minPerWindow, p, now)
    IN /\ call[c].pc = "decide"
       /\ mutex = Free
       /\ p \in Ranks
       /\ IF reject THEN CanDrawBelow(prob) ELSE CanDrawAtOrAbove(prob)
       /\ requests' = RotatedUpTo(requests, p, now)
       /\ accepts' = RotatedUpTo(accepts, p, now)
       /\ call' = [call EXCEPT ![c].local = reject,
                               ![c].pc = IF reject THEN "reject" ELSE "work",
                               ![c].fnCalls = IF reject THEN @ ELSE @ + 1]
       /\ UNCHANGED <<clock, k, minPerWindow, IsRejectedError, opts, history, mutex, calls>>

\* variant: every increment goes to the counters of rank 0
AddOp_RankZero(ctr, p, now) == [ctr |-> ctr, rank |-> 0, at |-> now]

\* one counter increment: add(now, 1) on requests[rank] or on accepts[rank]
AddOp(ctr, p, now) == [ctr |-> ctr, rank |-> p, at |-> now]


\* variant: a rejection records nothing
reject_Nothing(p, now) == <<>>

\* t.reject(p, now): the adds it makes under the mutex
reject(p, now) == <<AddOp("requests", p, now)>>


\* variant: accept records the request and no accept
accept_RequestOnly(p, now) == <<AddOp("requests", p, now)>>

\* t.accept(p, now): the adds it makes under the mutex
accept(p, now) == <<AddOp("requests", p, now), AddOp("accepts", p, now)>>

RECURSIVE ApplyAdds(_, _, _)
\* the counter array called name after the adds of ops
ApplyAdds(ctrs, name, ops) ==
    IF ops = <<>> THEN ctrs
    ELSE LET op == Head(ops)
             next == IF op.ctr = name
                     THEN [ctrs EXCEPT ![op.rank] = CounterAdd(@, op.at, 1)]
                     ELSE ctrs
         IN ApplyAdds(next, name, Tail(ops))


\* variant: the rejection is recorded at a fresh clock reading
LocalRejectAdds_FreshClock(cl) == reject(cl.priority, clock)


\* variant: a local rejection is not recorded
LocalRejectAdds_None(cl) == <<>>

\* t.reject(priority, now) of the local rejection path: now is still the
\* reading taken before rejectionProbability
LocalRejectAdds(cl) == reject(cl.priority, cl.now)

\* len(fallbackFn) > 0
FallbackSupplied(cl) == cl.hasFallback

\* the arguments of fallbackFn[0](ctx)
FallbackArgs(cl) == <<"ctx">>


\* variant: the outcome of the fallback is dropped for the sentinel
LocalRejectResult_AlwaysSentinel(cl, fbRet) == DefaultClientSideRejectionError

\* variant: a local rejection without fallback returns nil
LocalRejectResult_NilWithoutFallback(cl, fbRet) ==
    IF FallbackSupplied(cl) THEN fbRet ELSE Nil

\* what Throttle returns on the local rejection path, fbRet being what the
\* fallback returned
LocalRejectResult(cl, fbRet) ==
    IF FallbackSupplied(cl) THEN fbRet ELSE DefaultClientSideRejectionError

\* Throttle[T] on the local rejection path: at.reject(priority, now), then
\* the fallback or the zero value with the sentinel
LocalRejectAddsT(cl) == reject(cl.priority, cl.now)
LocalRejectResultT(cl, fbRet) ==
    IF cl.hasFallback THEN fbRet ELSE DefaultClientSideRejectionError

\* WithAdaptiveThrottle on the local rejection path: it takes no fallback
LocalRejectAddsW(cl) == reject(cl.priority, cl.now)
LocalRejectResultW(cl, fbRet) == DefaultClientSideRejectionError

\* the entry points: the method, the generic function, the function without
\* context
EntryPoints == {"Throttle", "Throttle[T]", "WithAdaptiveThrottle"}

\* the adds and the result of the local rejection path of the entry point
\* the call came in by
EntryLocalRejectAdds(cl) ==
    CASE cl.entry = "Throttle" -> LocalRejectAdds(cl)
      [] cl.entry = "Throttle[T]" -> LocalRejectAddsT(cl)
      [] cl.entry = "WithAdaptiveThrottle" -> LocalRejectAddsW(cl)
EntryLocalRejectResult(cl, fbRet) ==
    CASE cl.entry = "Throttle" -> LocalRejectResult(cl, fbRet)
      [] cl.entry = "Throttle[T]" -> LocalRejectResultT(cl, fbRet)
      [] cl.entry = "WithAdaptiveThrottle" -> LocalRejectResultW(cl, fbRet)

\* the local rejection path: t.reject, then the fallback or the sentinel
LocalReject(c, fbRet) ==
    LET cl == call[c]
        ops == EntryLocalRejectAdds(cl)
    IN /\ cl.pc = "reject"
       /\ mutex = Free
       /\ FallbackSupplied(cl) \/ fbRet = Nil
       /\ requests' = ApplyAdds(requests, "requests", ops)
       /\ accepts' = ApplyAdds(accepts, "accepts", ops)
       /\ call' = [call EXCEPT ![c] =
             [cl EXCEPT !.pc = "done",
                        !.adds = @ \o ops,
                        !.fbCalls = IF FallbackSupplied(cl) THEN @ + 1 ELSE @,
                        !.fbArgs = IF FallbackSupplied(cl) THEN FallbackArgs(cl) ELSE @,
                        !.fbRet = fbRet,
                        !.ret = EntryLocalRejectResult(cl, fbRet)]]
       /\ UNCHANGED <<clock, k, minPerWindow, IsRejectedError, opts, history, mutex, calls>>

\* fn(ctx) returns and Now() is sampled again; the error fn returned is not
\* looked at before the switch, and is drawn there
WorkReturn(c) ==
    /\ call[c].pc = "work"
    /\ call' = [call EXCEPT ![c].pc = "record", ![c].now = clock]
    /\ UNCHANGED <<clock, k, minPerWindow, requests, accepts, IsRejectedError, opts, history, mutex, calls>>

\* case errors.Is(err, errRejected{})
IsWrapperCase(err) == err # Nil /\ ErrorsIs(err, RejectedError(Nil))


\* variant: the classifier is not consulted
Accepted_IgnoreClassifier(cls, err) ==
    IF err = Nil THEN TRUE ELSE ~IsWrapperCase(err)

\* variant: only a nil error is an accept
Accepted_OnlyNil(cls, err) == err = Nil

\* the switch on err: whether the outcome goes to t.accept (else to t.reject)
Accepted(cls, err) ==
    IF err = Nil THEN TRUE
    ELSE IF IsWrapperCase(err) THEN FALSE
    ELSE ~ApplyClassifier(cls, err)

\* the error handed back: err.(errRejected).inner in the wrapper case
Returned(err) == IF IsWrapperCase(err) THEN Unwrap(err) ELSE err

\* variant: the outcome is recorded at the time read before the decision
OutcomeAdds_AtT0(cls, cl) ==
    IF Accepted(cls, cl.err) THEN accept(cl.priority, cl.t0)
    ELSE reject(cl.priority, cl.t0)

\* the adds of the admit path, at the time read after fn returned
OutcomeAdds(cls, cl) ==
    IF Accepted(cls, cl.err) THEN accept(cl.priority, cl.now)
    ELSE reject(cl.priority, cl.now)


\* variant: the fallback also runs when fn returned an error
AdmitPathFallbackCalls_OnError(cl) ==
    IF FallbackSupplied(cl) /\ cl.err # Nil THEN 1 ELSE 0

\* calls of the fallback after fn was invoked: the admit path has none
AdmitPathFallbackCalls(cl) == 0

\* the switch of Throttle[T]: case err == nil accepts; the wrapper case
\* unwraps and falls through into the body of case IsRejectedError(err),
\* at.reject; default accepts
OutcomeAddsT(cls, cl) ==
    CASE cl.err = Nil -> accept(cl.priority, cl.now)
      [] cl.err # Nil /\ IsWrapperCase(cl.err) -> reject(cl.priority, cl.now)
      [] cl.err # Nil /\ ~IsWrapperCase(cl.err) /\ ApplyClassifier(cls, cl.err) ->
            reject(cl.priority, cl.now)
      [] OTHER -> accept(cl.priority, cl.now)
ReturnedT(err) ==
    IF err # Nil /\ IsWrapperCase(err) THEN Unwrap(err) ELSE err


\* variant: the wrapper case hands back the wrapper
ReturnedW_NoUnwrap(err) == err

\* the switch of WithAdaptiveThrottle: the wrapper case calls at.reject
\* itself and then unwraps, without fallthrough
ReturnedW(err) ==
    IF err # Nil /\ IsWrapperCase(err) THEN Unwrap(err) ELSE err
OutcomeAddsW(cls, cl) ==
    CASE cl.err = Nil -> accept(cl.priority, cl.now)
      [] cl.err # Nil /\ IsWrapperCase(cl.err) -> reject(cl.priority, cl.now)
      [] cl.err # Nil /\ ~IsWrapperCase(cl.err) /\ ApplyClassifier(cls, cl.err) ->
            reject(cl.priority, cl.now)
      [] OTHER -> accept(cl.priority, cl.now)

\* the adds and the result of the admit path of the entry point the call came
\* in by
EntryOutcomeAdds(cls, cl) ==
    CASE cl.entry = "Throttle" -> OutcomeAdds(cls, cl)
      [] cl.entry = "Throttle[T]" -> OutcomeAddsT(cls, cl)
      [] cl.entry = "WithAdaptiveThrottle" -> OutcomeAddsW(cls, cl)
EntryReturned(cl) ==
    CASE cl.entry = "Throttle" -> Returned(cl.err)
      [] cl.entry = "Throttle[T]" -> ReturnedT(cl.err)
      [] cl.entry = "WithAdaptiveThrottle" -> ReturnedW(cl.err)

\* the outcome err of fn is classified and recorded, and Throttle returns
Record(c, err) ==
    LET cl == [call[c] EXCEPT !.err = err]
        ops == EntryOutcomeAdds(IsRejectedError, cl)
    IN /\ cl.pc = "record"
       /\ mutex = Free
       /\ requests' = ApplyAdds(requests, "requests", ops)
       /\ accepts' = ApplyAdds(accepts, "accepts", ops)
       /\ call' = [call EXCEPT ![c] =
             [cl EXCEPT !.pc = "done",
                        !.ret = EntryReturned(cl),
                        !.adds = @ \o ops,
                        !.fbCalls = @ + AdmitPathFallbackCalls(cl)]]
       /\ UNCHANGED <<clock, k, minPerWindow, IsRejectedError, opts, history, mutex, calls>>

\* the caller takes the result and is free to call again
Return(c) ==
    /\ call[c].pc = "done"
    /\ call' = [call EXCEPT ![c] = IdleCall]
    /\ UNCHANGED <<clock, k, minPerWindow, requests, accepts, IsRejectedError, opts, history, mutex, calls>>

\* the contexts handed to Throttle: none bound, or the most important rank
CallContexts == {Background, WithPriority(Background, 0)}
\* the priority argument of the call sites: the least important rank
DefaultPriorities == {NumPriorities - 1}

Next ==
    \/ \E d \in TickSteps : Tick(d, MaxTime)
    \/ \E c \in Callers, ctx \in CallContexts, def \in DefaultPriorities, fb \in BOOLEAN :
          Begin(c, ctx, def, fb, MaxCalls)
    \/ \E c \in Callers, r \in BOOLEAN : Decide(c, r)
    \/ \E c \in Callers, e \in FallbackErrors : LocalReject(c, e)
    \/ \E c \in Callers : WorkReturn(c)
    \/ \E c \in Callers, e \in Errors : Record(c, e)
    \/ \E c \in Callers : Return(c)

Spec == Init /\ [][Next]_vars

\* ------------------------------------------------- window specification
\* The same throttle over more than one full window: default options, no
\* fallback, work that succeeds or fails with a distress error.
MaxCallsW == 6
MaxTimeW == Buckets * Width
\* the clock jumps over a whole window while calls are in flight
TickStepsW == {Buckets * Width}

InitW ==
    /\ Init
    /\ k = K
    /\ IsRejectedError = "default"

NextW ==
    \/ \E d \in TickStepsW : Tick(d, MaxTimeW)
    \/ \E c \in Callers, def \in Ranks : Begin(c, Background, def, FALSE, MaxCallsW)
    \/ \E c \in Callers, r \in BOOLEAN : Decide(c, r)
    \/ \E c \in Callers : LocalReject(c, Nil)
    \/ \E c \in Callers : WorkReturn(c)
    \/ \E c \in Callers, e \in {Nil, ErrUnavailable} : Record(c, e)
    \/ \E c \in Callers : Return(c)

SpecWindow == InitW /\ [][NextW]_vars

\* the times at which the counters can be read: the clock, and the reading a
\* caller took before it reaches rejectionProbability
ReadTimes == {clock} \cup {call[c].now : c \in {x \in Callers : call[x].pc = "decide"}}

\* C1: at every read time t and every rank p,
\* accepts[p].get(t) <= requests[p].get(t).
C1_AcceptsAtMostRequests ==
    \A p \in Ranks : \A t \in ReadTimes :
        CounterGet(accepts[p], t) <= CounterGet(requests[p], t)

\* ------------------------------------------------------------------ claims
Done(c) == call[c].pc = "done"
\* the call of c returned after fn was invoked
Admitted(c) == Done(c) /\ call[c].fnCalls = 1
\* the call of c returned after the throttle rejected it locally
LocallyRejected(c) == Done(c) /\ call[c].local
\* fn returned RejectedError(e) with a non-nil e
WrappedNonNil(err) == err.wrapped /\ Unwrap(err) # Nil

\* C2: when admitted work returns RejectedError(e) for a non-nil e, the
\* caller receives e itself and the call records one request and no accept
\* at its priority, whatever the classifier says.
C2_WrappedIsUnwrappedAndRejected ==
    \A c \in Callers :
        (Admitted(c) /\ WrappedNonNil(call[c].err)) =>
            /\ call[c].ret = Unwrap(call[c].err)
            /\ call[c].adds = <<AddOp("requests", call[c].priority, call[c].now)>>

\* C3: on the local rejection path fn is not invoked, the one add of the call
\* is requests[p].add(t0, 1) with t0 the time read before the probability
\* computation, and the step leaves accepts as it was.
C3_LocalRejectionRecordsRequestAtT0 ==
    /\ [](\A c \in Callers : LocallyRejected(c) =>
            /\ call[c].fnCalls = 0
            /\ call[c].adds = <<AddOp("requests", call[c].priority, call[c].t0)>>)
    /\ [][\A c \in Callers :
            (call[c].pc = "reject" /\ call'[c].pc = "done") => accepts' = accepts]_vars

C3_Witness ==
    \E c \in Callers : LocallyRejected(c) /\ clock > call[c].t0 /\ Len(call[c].adds) = 1

\* C4: a locally rejected call with a fallback invokes the fallback once and
\* fn never, and returns what the fallback returned.
C4_FallbackOnLocalRejection ==
    \A c \in Callers :
        (LocallyRejected(c) /\ call[c].hasFallback) =>
            /\ call[c].fbCalls = 1
            /\ call[c].fnCalls = 0
            /\ call[c].ret = call[c].fbRet

C4_Witness ==
    \E c \in Callers :
        /\ LocallyRejected(c) /\ call[c].hasFallback
        /\ call[c].fbCalls = 1 /\ call[c].ret = ErrStandard

\* C5: whenever fn was invoked the fallback is not, whatever fn returns, and
\* the caller receives the error of fn, unwrapped if it was RejectedError.
C5_NoFallbackAfterWork ==
    \A c \in Callers :
        Admitted(c) =>
            /\ call[c].fbCalls = 0
            /\ call[c].ret = IF call[c].err.wrapped THEN Unwrap(call[c].err)
                             ELSE call[c].err

C7_FallbackGetsSentinelAndFlag ==
    \A c \in Callers :
        (LocallyRejected(c) /\ call[c].fbCalls = 1) =>
            /\ Len(call[c].fbArgs) = 3
            /\ call[c].fbArgs[2] = DefaultClientSideRejectionError
            /\ call[c].fbArgs[3] = TRUE

\* C8 as stated: local rejection without fallback returns the sentinel, and
\* the sentinel is returned on no other path unless fn itself returned it.
C8_SentinelOnlyFromThrottleOrWork ==
    \A c \in Callers :
        Done(c) =>
            /\ (call[c].local /\ ~call[c].hasFallback) =>
                  call[c].ret = DefaultClientSideRejectionError
            /\ call[c].ret = DefaultClientSideRejectionError =>
                  \/ (call[c].local /\ ~call[c].hasFallback)
                  \/ (call[c].fnCalls = 1 /\ call[c].err = DefaultClientSideRejectionError)

\* C8 amended: local rejection without fallback returns the sentinel, and the
\* sentinel is returned on no other path unless fn or the fallback itself
\* returned it.
C8_SentinelOnlyFromThrottleWorkOrFallback ==
    \A c \in Callers :
        Done(c) =>
            /\ (call[c].local /\ ~call[c].hasFallback) =>
                  call[c].ret = DefaultClientSideRejectionError
            /\ call[c].ret = DefaultClientSideRejectionError =>
                  \/ (call[c].local /\ ~call[c].hasFallback)
                  \/ (call[c].fnCalls = 1 /\ call[c].err = DefaultClientSideRejectionError)
                  \/ (call[c].fbCalls = 1 /\ call[c].fbRet = DefaultClientSideRejectionError)

C8_Witness ==
    \E c \in Callers :
        /\ LocallyRejected(c) /\ ~call[c].hasFallback
        /\ call[c].ret = DefaultClientSideRejectionError

MaxCallsP == 4
\* choices of opts.k (WithAdaptiveThrottleRatio takes any float64)
KChoicesP == {0, 1, 2}
\* choices of opts.minRate * opts.d.Seconds() (WithAdaptiveThrottleMinimumRate
\* takes any float64)
MinPerWindowChoicesP == {0, 1}

InitP ==
    /\ clock = 0
    /\ k \in KChoicesP
    /\ minPerWindow \in MinPerWindowChoicesP
    /\ requests = [p \in Ranks |-> newWindowedCounter(0)]
    /\ accepts = [p \in Ranks |-> newWindowedCounter(0)]
    /\ IsRejectedError = "default"
    /\ call = [c \in Callers |-> IdleCall]
    /\ opts = DefaultOptions
    /\ mutex = Free
    /\ history = NoHistory
    /\ calls = 0

NextP ==
    \/ \E d \in TickStepsW : Tick(d, MaxTimeW)
    \/ \E c \in Callers, def \in Ranks : Begin(c, Background, def, FALSE, MaxCallsP)
    \/ \E c \in Callers, r \in BOOLEAN : Decide(c, r)
    \/ \E c \in Callers : LocalReject(c, Nil)
    \/ \E c \in Callers : WorkReturn(c)
    \/ \E c \in Callers, e \in {Nil, ErrUnavailable} : Record(c, e)
    \/ \E c \in Callers : Return(c)

SpecProb == InitP /\ [][NextP]_vars

\* P_reject(p, t) as the throttle computes it in the current state
PReject(p, t) == rejectionProbability(requests, accepts, k, minPerWindow, p, t)

\* C11: at every rank p and read time t, 0 <= P_reject(p, t) <= 1.
C11_ProbabilityInUnitInterval ==
    \A p \in Ranks : \A t \in ReadTimes :
        LET x == PReject(p, t)
        IN /\ x.den > 0
           /\ 0 <= x.num
           /\ x.num <= x.den

RECURSIVE SumOver(_, _)
\* the sum of f[i] over the finite set S
SumOver(f, S) ==
    IF S = {} THEN 0
    ELSE LET i == CHOOSE x \in S : TRUE IN f[i] + SumOver(f, S \ {i})

\* A of the formula: accepts[p].get(t)
AcceptsAt(p, t) == CounterGet(accepts[p], t)
\* the unaccepted traffic of rank i: requests[i].get(t) - accepts[i].get(t)
UnacceptedAt(i, t) == CounterGet(requests[i], t) - CounterGet(accepts[i], t)
\* R of the formula: requests[p].get(t) plus the unaccepted traffic of every
\* more important rank
EffectiveRequests(p, t) ==
    CounterGet(requests[p], t)
    + SumOver([i \in Ranks |-> UnacceptedAt(i, t)], {i \in Ranks : i < p})

IsZero(x) == x.den > 0 /\ x.num = 0
IsOne(x) == x.den > 0 /\ x.num = x.den
\* x is the number n / d clamped to [0, 1]; the quotient n / d of a zero d
\* is the infinity of the sign of n, and 0 / 0 is no number
IsClampedRatio(x, n, d) ==
    /\ d > 0 => IF n < 0 THEN IsZero(x)
                ELSE IF n > d THEN IsOne(x)
                ELSE x.den > 0 /\ x.num * d = n * x.den
    /\ d < 0 => IF n > 0 THEN IsZero(x)
                ELSE IF n < d THEN IsOne(x)
                ELSE x.den > 0 /\ x.num * d = n * x.den
    /\ d = 0 => (n > 0 => IsOne(x)) /\ (n < 0 => IsZero(x))

\* C12: at every rank p and read time t, rejectionProbability(p, t) is
\* (R - k*A) / (R + minPerWindow) clamped to [0, 1], with A = accepts[p].get(t)
\* and R = requests[p].get(t) + sum over i < p of
\* (requests[i].get(t) - accepts[i].get(t)).
C12_ProbabilityIsClampedRatio ==
    \A p \in Ranks : \A t \in ReadTimes :
        IsClampedRatio(PReject(p, t),
                       EffectiveRequests(p, t) - k * AcceptsAt(p, t),
                       EffectiveRequests(p, t) + minPerWindow)

C12_Witness ==
    \E p \in Ranks : \E t \in ReadTimes :
        /\ p > 0 /\ AcceptsAt(p, t) > 0 /\ k > 0
        /\ EffectiveRequests(p, t) > CounterGet(requests[p], t)
        /\ PReject(p, t).num > 0 /\ PReject(p, t).num < PReject(p, t).den

\* ------------------------------------------------ healthy specification
\* The throttle in front of a healthy backend: every work function returns
\* nil. The ratio k is at least 1.
MaxCallsH == 3
KChoicesH == {k0 \in KChoicesP : k0 >= 1}

InitH ==
    /\ clock = 0
    /\ k \in KChoicesH
    /\ minPerWindow \in MinPerWindowChoicesP
    /\ requests = [p \in Ranks |-> newWindowedCounter(0)]
    /\ accepts = [p \in Ranks |-> newWindowedCounter(0)]
    /\ IsRejectedError = "default"
    /\ call = [c \in Callers |-> IdleCall]
    /\ opts = DefaultOptions
    /\ mutex = Free
    /\ history = NoHistory
    /\ calls = 0

\* no step of the local rejection path: C13 states that Decide never takes it
NextH ==
    \/ \E d \in TickStepsW : Tick(d, MaxTimeW)
    \/ \E c \in Callers, def \in Ranks : Begin(c, Background, def, FALSE, MaxCallsH)
    \/ \E c \in Callers, r \in BOOLEAN : Decide(c, r)
    \/ \E c \in Callers : WorkReturn(c)
    \/ \E c \in Callers : Record(c, Nil)
    \/ \E c \in Callers : Return(c)

SpecHealthy == InitH /\ [][NextH]_vars

\* C13: with k >= 1 and work that always succeeds, P_reject is exactly 0 at
\* every rank and read time, no call is rejected locally, and after each
\* completed call requests[p] and accepts[p] are equal at every rank.
C13_PassiveUnderHealth ==
    /\ \A p \in Ranks : \A t \in ReadTimes : IsZero(PReject(p, t))
    /\ \A c \in Callers :
          /\ call[c].pc # "reject"
          /\ Done(c) =>
                /\ call[c].fnCalls = 1
                /\ \A p \in Ranks : requests[p] = accepts[p]

\* C14: at every rank p and read time t, P_reject is 0 (and no draw rejects
\* the call) whenever R(p) <= k * accepts[p], and P_reject is above 0 as soon
\* as R(p) > k * accepts[p], R(p) being the requests at p plus the unaccepted
\* traffic of the more important ranks.
C14_RejectsOnlyAboveRatio ==
    \A p \in Ranks : \A t \in ReadTimes :
        LET x == PReject(p, t)
            R == EffectiveRequests(p, t)
            A == AcceptsAt(p, t)
        IN /\ R <= k * A => IsZero(x) /\ ~CanDrawBelow(x)
           /\ R > k * A => x.den > 0 /\ x.num > 0

\* C15: with minPerWindow > 0 and k >= 0, P_reject(p, t) is below 1 at every
\* rank and read time, so that some random draw admits the call.
C15_BaselineProbe ==
    (minPerWindow > 0 /\ k >= 0) =>
        \A p \in Ranks : \A t \in ReadTimes :
            LET x == PReject(p, t)
            IN /\ x.den > 0 /\ x.num < x.den
               /\ CanDrawAtOrAbove(x)

\* ------------------------------------------------ shedding specification
\* The probability specification restricted to the configurations that
\* probe the backend: minPerWindow > 0.
InitS == InitP /\ minPerWindow > 0

SpecShed == InitS /\ [][NextP]_vars

\* x <= y for two results of rejectionProbability; NaN compares with nothing
ProbLeq(x, y) == x.den > 0 /\ y.den > 0 /\ x.num * y.den <= y.num * x.den

MaxCallsR == 2
\* some value bound to the key of another package
OtherValue == 7

\* contexts with no priority, with one, and with one bound over another
ContextsR ==
    {Background, WithValue(Background, OtherKey, OtherValue)}
    \cup {WithPriority(b, q) :
            b \in {Background, WithPriority(Background, NumPriorities - 1)},
            q \in Ranks}

NextR ==
    \/ \E d \in TickSteps : Tick(d, MaxTime)
    \/ \E c \in Callers, ctx \in ContextsR, def \in Ranks :
          Begin(c, ctx, def, FALSE, MaxCallsR)
    \/ \E c \in Callers, r \in BOOLEAN : Decide(c, r)
    \/ \E c \in Callers : LocalReject(c, Nil)
    \/ \E c \in Callers : WorkReturn(c)
    \/ \E c \in Callers, e \in {Nil, ErrUnavailable} : Record(c, e)
    \/ \E c \in Callers : Return(c)

SpecPriority == InitW /\ [][NextR]_vars

\* the positions of ctx that bind a priority
PriorityBindings(ctx) == {i \in 1..Len(ctx) : ctx[i].key = activePriorityKey}
\* ctx carries a priority
HasPriority(ctx) == PriorityBindings(ctx) # {}
\* the priority bound last
BoundPriority(ctx) ==
    ctx[CHOOSE i \in PriorityBindings(ctx) : \A j \in PriorityBindings(ctx) : j <= i].val

\* C17: a call whose context binds the priority q runs at rank q whatever the
\* default d, and a call whose context binds none runs at rank d: every add of
\* the call is at that rank, and the call is rejected locally only if some
\* draw is below P_reject of that rank, admitted only if some draw is not.
C17_ContextPriorityWins ==
    /\ [](\A c \in Callers :
            LET cl == call[c]
                q == IF HasPriority(cl.ctx) THEN BoundPriority(cl.ctx) ELSE cl.def
            IN cl.pc # "idle" =>
                 /\ cl.priority = q
                 /\ \A i \in 1..Len(cl.adds) : cl.adds[i].rank = q)
    /\ [][\A c \in Callers :
            LET cl == call[c]
                q == IF HasPriority(cl.ctx) THEN BoundPriority(cl.ctx) ELSE cl.def
            IN /\ (cl.pc = "decide" /\ call'[c].pc = "reject")
                    => CanDrawBelow(PReject(q, cl.now))
               /\ (cl.pc = "decide" /\ call'[c].pc = "work")
                    => CanDrawAtOrAbove(PReject(q, cl.now))
               /\ (cl.pc \in {"reject", "record"} /\ call'[c].pc = "done")
                    => \A o \in Ranks \ {q} :
                         requests'[o] = requests[o] /\ accepts'[o] = accepts[o]]_vars

C17_Witness ==
    \E c \in Callers :
        /\ Done(c) /\ HasPriority(call[c].ctx)
        /\ BoundPriority(call[c].ctx) # call[c].def
        /\ Len(call[c].ctx) = 2 /\ call[c].local
        /\ call[c].adds = <<AddOp("requests", BoundPriority(call[c].ctx), call[c].t0)>>

\* ------------------------------------------------- carrier specification
\* The priority carrier alone: each caller derives contexts with WithPriority
\* and with bindings of another key, then resolves its priority as Throttle
\* does on entry.
\* longest chain of bindings of a context
MaxCtx == 3

\* ctx = WithPriority(ctx, priority) at a call site
AttachPriority(c, priority) ==
    /\ call[c].pc = "idle"
    /\ Len(call[c].ctx) < MaxCtx
    /\ call' = [call EXCEPT ![c].ctx = WithPriority(@, priority)]
    /\ UNCHANGED <<clock, k, minPerWindow, requests, accepts, IsRejectedError, opts, history, mutex, calls>>

\* ctx = context.WithValue(ctx, otherKey, v) in another package
AttachOther(c) ==
    /\ call[c].pc = "idle"
    /\ Len(call[c].ctx) < MaxCtx
    /\ call' = [call EXCEPT ![c].ctx = WithValue(@, OtherKey, OtherValue)]
    /\ UNCHANGED <<clock, k, minPerWindow, requests, accepts, IsRejectedError, opts, history, mutex, calls>>

NextC ==
    \/ \E c \in Callers, q \in Ranks : AttachPriority(c, q)
    \/ \E c \in Callers : AttachOther(c)
    \/ \E c \in Callers, def \in Ranks : Begin(c, call[c].ctx, def, FALSE, MaxCallsR)

SpecCarrier == InitW /\ [][NextC]_vars

\* C18: PriorityFromContext(WithPriority(ctx, p), d) = p for every context
\* ctx, priority p and default d, and PriorityFromContext(ctx, d) = d when ctx
\* binds no priority.
C18_PriorityRoundTrip ==
    \A c \in Callers :
        LET cl == call[c]
            n == Len(cl.ctx)
        IN /\ \A p \in Ranks, d \in Ranks :
                PriorityFromContext(WithPriority(cl.ctx, p), d) = p
           /\ (cl.pc # "idle" /\ n > 0 /\ cl.ctx[n].key = activePriorityKey)
                => cl.priority = cl.ctx[n].val
           /\ (cl.pc # "idle" /\ ~HasPriority(cl.ctx)) => cl.priority = cl.def

C18_Witness ==
    \E c \in Callers :
        LET cl == call[c]
        IN /\ cl.pc # "idle" /\ Len(cl.ctx) = MaxCtx
           /\ cl.ctx[MaxCtx].key = activePriorityKey
           /\ cl.ctx[1].key = activePriorityKey
           /\ cl.ctx[1].val # cl.ctx[MaxCtx].val
           /\ cl.def # cl.ctx[MaxCtx].val
           /\ cl.priority = cl.ctx[MaxCtx].val

\* ---------------------------------------------- validation specification
\* PriorityRange.Validate alone, on every range of the named priorities with
\* every validator, for priorities in and out of the range, negative ones
\* included.
\* largest magnitude of a Priority value
MaxPriorityValue == 4
PriorityValues == (0 - MaxPriorityValue)..MaxPriorityValue
\* the lowest priority of a range: one of the named priorities
LowestChoices == High..Low

\* p, err := r.Validate(p) in the goroutine of c; a panic ends the goroutine
ValidatePriority(c, r, p) ==
    LET out == Validate(r, p)
    IN /\ call[c].pc \in {"idle", "validated"}
       /\ call' = [call EXCEPT ![c] =
             [IdleCall EXCEPT !.pc = IF out.panicked THEN "panicked" ELSE "validated",
                              !.range = r, !.given = p,
                              !.priority = out.p, !.verr = out.err]]
       /\ UNCHANGED <<clock, k, minPerWindow, requests, accepts, IsRejectedError, opts, history, mutex, calls>>

NextV ==
    \E c \in Callers, lowest \in LowestChoices, v \in Validators, p \in PriorityValues :
        ValidatePriority(c, NewPriorityRange(lowest, v), p)

SpecValidate == InitW /\ [][NextV]_vars

\* p is a rank of the range r
InRange(r, p) == r.highest <= p /\ p <= r.lowest
\* the call of c validated under the validator v
ValidatedUnder(c, v) ==
    call[c].pc \in {"validated", "panicked"} /\ call[c].range.validate = v

\* C19: under the clamp policy Validate never returns an error and returns a
\* rank of the range: p itself when p is in the range, the lowest rank when p
\* is out of it, negative p included.
C19_ClampReturnsRankInRange ==
    \A c \in Callers :
        ValidatedUnder(c, "OnInvalidPriorityAdjust") =>
            /\ call[c].pc = "validated"
            /\ call[c].verr = Nil
            /\ InRange(call[c].range, call[c].priority)
            /\ call[c].priority = IF InRange(call[c].range, call[c].given)
                                  THEN call[c].given
                                  ELSE call[c].range.lowest

\* C20: under the panic policy Validate panics exactly when p is outside
\* [0, lowest], and returns p with a nil error for every p of the range,
\* lowest included.
C20_PanicExactlyOutOfRange ==
    \A c \in Callers :
        ValidatedUnder(c, "OnInvalidPriorityPanic") =>
            /\ (call[c].pc = "panicked") <=> ~InRange(call[c].range, call[c].given)
            /\ call[c].pc = "validated" =>
                  call[c].priority = call[c].given /\ call[c].verr = Nil

\* C21: under the error policy Validate returns a validation failure exactly
\* when p is outside [0, lowest], above the lowest rank or negative, and
\* returns p with a nil error for every p of the range.
C21_ErrorExactlyOutOfRange ==
    \A c \in Callers :
        ValidatedUnder(c, "OnInvalidPriorityError") =>
            /\ call[c].pc = "validated"
            /\ (call[c].verr # Nil) <=> ~InRange(call[c].range, call[c].given)
            /\ InRange(call[c].range, call[c].given) =>
                  call[c].priority = call[c].given /\ call[c].verr = Nil

\* ---------------------------------------------------- range specification
\* The throttle called with any priority, by argument or through the context:
\* ranks of the range, the first value past the lowest rank, and -1. The
\* caller's range has any of the validators; NewAdaptiveThrottle is given its
\* size.
MaxCallsG == 3
\* the priorities handed to Throttle
GivenPriorities == (0 - 1)..NumPriorities
ContextsG == {Background} \cup {WithPriority(Background, p) : p \in GivenPriorities}

InitRange ==
    /\ clock = 0
    /\ k = K
    /\ minPerWindow \in MinPerWindowChoices
    /\ opts \in {[DefaultOptions EXCEPT !.priorities = NewPriorityRange(NumPriorities - 1, v)] :
                    v \in Validators}
    /\ requests = [p \in 0..(Range(opts.priorities) - 1) |-> newWindowedCounter(0)]
    /\ accepts = [p \in 0..(Range(opts.priorities) - 1) |-> newWindowedCounter(0)]
    /\ IsRejectedError = "default"
    /\ mutex = Free
    /\ history = NoHistory
    /\ call = [c \in Callers |-> IdleCall]
    /\ calls = 0

NextRange ==
    \/ \E c \in Callers, ctx \in ContextsG, def \in GivenPriorities :
          Begin(c, ctx, def, FALSE, MaxCallsG)
    \/ \E c \in Callers : IndexPanic(c)
    \/ \E c \in Callers, r \in BOOLEAN : Decide(c, r)
    \/ \E c \in Callers : LocalReject(c, Nil)
    \/ \E c \in Callers : WorkReturn(c)
    \/ \E c \in Callers, e \in {Nil, ErrUnavailable} : Record(c, e)
    \/ \E c \in Callers : Return(c)

SpecRange == InitRange /\ [][NextRange]_vars

\* the priority the call of c resolved is no rank of the range
ResolvedOutOfRange(c) ==
    /\ call[c].pc # "idle"
    /\ ~InRange(opts.priorities, PriorityFromContext(call[c].ctx, call[c].def))

\* C22: a call with a priority outside the range of a throttle whose range
\* has the error policy returns the validation error; the work function is
\* not invoked and nothing is recorded.
C22_ErrorPolicyRefusesCall ==
    \A c \in Callers :
        (ResolvedOutOfRange(c) /\ opts.priorities.validate = "OnInvalidPriorityError") =>
            /\ call[c].pc # "panicked"
            /\ call[c].fnCalls = 0
            /\ call[c].adds = <<>>
            /\ call[c].pc = "done" => call[c].ret = ErrBadPriority

\* C23: there is one requests slot and one accepts slot per rank of the range,
\* and whatever priority a call is given, no counter access is out of the
\* slots: under the clamp policy a priority out of the range is counted at
\* the lowest rank, and the call does not panic.
C23_CounterIndexInRange ==
    /\ DOMAIN requests = 0..Lowest(opts.priorities)
    /\ DOMAIN accepts = 0..Lowest(opts.priorities)
    /\ \A c \in Callers :
          /\ \A i \in 1..Len(call[c].adds) :
                InRange(opts.priorities, call[c].adds[i].rank)
          /\ opts.priorities.validate = "OnInvalidPriorityAdjust" =>
                /\ call[c].pc # "panicked"
                /\ (ResolvedOutOfRange(c) /\ call[c].pc = "done") =>
                      \A i \in 1..Len(call[c].adds) :
                          call[c].adds[i].rank = Lowest(opts.priorities)

\* --------------------------------------------------- option specification
\* The calls of Spec on a throttle built with or without WithAcceptedErrors.
\* NewAdaptiveThrottle copies k, the counters and minPerWindow out of the
\* options: the throttle has no field for opts.isErrorAccepted, and the switch
\* of Throttle asks the global IsRejectedError.
InitOption ==
    /\ clock = 0
    /\ k \in KChoices
    /\ minPerWindow \in MinPerWindowChoices
    /\ requests = [p \in Ranks |-> newWindowedCounter(0)]
    /\ accepts = [p \in Ranks |-> newWindowedCounter(0)]
    /\ IsRejectedError \in ClassifierChoices
    /\ opts \in {WithAcceptedErrors(DefaultOptions, fn) : fn \in AcceptedErrorsChoices}
    /\ mutex = Free
    /\ history = NoHistory
    /\ call = [c \in Callers |-> IdleCall]
    /\ calls = 0

SpecOption == InitOption /\ [][Next]_vars

\* C24: on a throttle built with WithAcceptedErrors(fn), an admitted call
\* whose work returned an error fn accepts is recorded as an accept.
C24_AcceptedErrorsHonoured ==
    \A c \in Callers :
        (/\ call[c].pc = "done"
         /\ ~call[c].local
         /\ IsErrorAccepted(opts.isErrorAccepted, call[c].err)) =>
            call[c].adds = accept(call[c].priority, call[c].now)

\* ---------------------------------------------------- entry specification
\* Calls through the three entry points on one throttle, with no priority in
\* the context and no fallback, under either classifier.
MaxCallsE == 2
\* what the work function returns: nil, a distress and a benign error, and
\* the wrapper around nil and around the distress error
ErrorsE == {Nil, ErrUnavailable, ErrStandard,
            RejectedError(Nil), RejectedError(ErrUnavailable)}

NextEntry ==
    \/ Tick(1, MaxTime)
    \/ \E c \in Callers, def \in Ranks : Begin(c, Background, def, FALSE, MaxCallsE)
    \/ \E c \in Callers, e \in EntryPoints \ {"Throttle"}, p \in Ranks :
          BeginEntry(c, e, Background, p, MaxCallsE)
    \/ \E c \in Callers, r \in BOOLEAN : Decide(c, r)
    \/ \E c \in Callers : LocalReject(c, Nil)
    \/ \E c \in Callers : WorkReturn(c)
    \/ \E c \in Callers, e \in ErrorsE : Record(c, e)
    \/ \E c \in Callers : Return(c)

SpecEntry == Init /\ [][NextEntry]_vars

\* the calls of c and d had the same priority, clock readings, draw and work
\* outcome
SameInputs(c, d) ==
    /\ call[c].priority = call[d].priority
    /\ call[c].t0 = call[d].t0
    /\ call[c].now = call[d].now
    /\ call[c].local = call[d].local
    /\ call[c].err = call[d].err

\* C25: two finished calls that came in by any two of the entry points with
\* the same priority, clock readings, draw and work outcome made the same
\* counter updates and returned the same error.
C25_EntryPointsEquivalent ==
    \A c, d \in Callers :
        (call[c].pc = "done" /\ call[d].pc = "done" /\ SameInputs(c, d)) =>
            /\ call[c].adds = call[d].adds
            /\ call[c].ret = call[d].ret
            /\ call[c].fnCalls = call[d].fnCalls

C25_Witness ==
    \E c, d \in Callers :
        /\ call[c].pc = "done" /\ call[d].pc = "done" /\ SameInputs(c, d)
        /\ call[c].entry = "Throttle"
        /\ call[d].entry = "WithAdaptiveThrottle"
        /\ call[c].err = RejectedError(Nil)
        /\ call[c].adds = reject(call[c].priority, call[c].now)

\* ---------------------------------------------------- mutex specification
\* The same calls with one step per statement run under t.m: Lock, each get
\* and each add, Unlock. The work function and the fallback run between
\* steps and may never return.
MaxCallsM == 3

\* one get of rejectionProbability: the counter read, its rank, the value
ReadOp(ctr, rank, val) == [ctr |-> ctr, rank |-> rank, val |-> val]


\* variant: the mutex is given up before the loop over the higher priorities
MutexInLoop_Unlocked(c) == Free

\* the holder of t.m between the reads of rank p and the loop over i < p: the
\* Unlock comes after the loop
MutexInLoop(c) == c

\* t.m.Unlock() by the holder c
Unlock(c) == Free

\* t.m.Lock() of rejectionProbability
ProbLock(c) ==
    /\ call[c].pc = "decide"
    /\ mutex = Free
    /\ mutex' = c
    /\ call' = [call EXCEPT ![c].pc = "probe"]
    /\ UNCHANGED <<clock, k, minPerWindow, requests, accepts, IsRejectedError, opts, history, calls>>

\* requests := t.requests[p].get(now); accepts := t.accepts[p].get(now)
ProbReadOwn(c) ==
    LET cl == call[c]
        p == cl.priority
        r == CounterGet(requests[p], cl.now)
        a == CounterGet(accepts[p], cl.now)
    IN /\ cl.pc = "probe"
       /\ p \in Ranks
       /\ requests' = [requests EXCEPT ![p] = Rotate(@, cl.now)]
       /\ accepts' = [accepts EXCEPT ![p] = Rotate(@, cl.now)]
       /\ mutex' = MutexInLoop(c)
       /\ call' = [call EXCEPT ![c] =
             [cl EXCEPT !.pc = "loop", !.i = 0, !.req = r, !.acc = a,
                        !.reads = <<ReadOp("requests", p, r), ReadOp("accepts", p, a)>>]]
       /\ UNCHANGED <<clock, k, minPerWindow, IsRejectedError, opts, history, calls>>

\* t.requests[int(p)] for a p that is no index of the slices: the goroutine
\* panics holding the mutex
ProbPanic(c) ==
    /\ call[c].pc = "probe"
    /\ call[c].priority \notin Ranks
    /\ call' = [call EXCEPT ![c].pc = "panicked"]
    /\ UNCHANGED <<clock, k, minPerWindow, requests, accepts, IsRejectedError, opts, history, mutex, calls>>

\* one turn of the loop: requests += t.requests[i].get(now) - t.accepts[i].get(now)
ProbReadHigher(c) ==
    LET cl == call[c]
        i == cl.i
        r == CounterGet(requests[i], cl.now)
        a == CounterGet(accepts[i], cl.now)
    IN /\ cl.pc = "loop"
       /\ i < cl.priority
       /\ requests' = [requests EXCEPT ![i] = Rotate(@, cl.now)]
       /\ accepts' = [accepts EXCEPT ![i] = Rotate(@, cl.now)]
       /\ call' = [call EXCEPT ![c] =
             [cl EXCEPT !.i = i + 1, !.req = @ + (r - a),
                        !.reads = @ \o <<ReadOp("requests", i, r), ReadOp("accepts", i, a)>>]]
       /\ UNCHANGED <<clock, k, minPerWindow, IsRejectedError, opts, history, mutex, calls>>

\* the loop is over: t.m.Unlock() and the clamped ratio
ProbUnlock(c) ==
    LET cl == call[c]
    IN /\ cl.pc = "loop"
       /\ cl.i >= cl.priority
       /\ mutex' = Unlock(c)
       /\ call' = [call EXCEPT ![c] =
             [cl EXCEPT !.pc = "draw",
                        !.prob = clamp([num |-> cl.req - k * cl.acc,
                                        den |-> cl.req + minPerWindow])]]
       /\ UNCHANGED <<clock, k, minPerWindow, requests, accepts, IsRejectedError, opts, history, calls>>

\* rand.Float64() < rejectionProbability
Draw(c, rejected) ==
    LET cl == call[c]
    IN /\ cl.pc = "draw"
       /\ IF rejected THEN CanDrawBelow(cl.prob) ELSE CanDrawAtOrAbove(cl.prob)
       /\ call' = [call EXCEPT ![c].local = rejected,
                               ![c].pc = IF rejected THEN "reject" ELSE "work",
                               ![c].fnCalls = IF rejected THEN @ ELSE @ + 1]
       /\ UNCHANGED <<clock, k, minPerWindow, requests, accepts, IsRejectedError, opts, history, mutex, calls>>

\* the switch on the error fn returned: the call goes on to t.accept or to
\* t.reject with the error it will return
Switch(c, err) ==
    LET cl == [call[c] EXCEPT !.err = err]
    IN /\ cl.pc = "record"
       /\ call' = [call EXCEPT ![c] =
             [cl EXCEPT !.pc = IF Accepted(IsRejectedError, err)
                               THEN "accept" ELSE "reject",
                        !.ret = Returned(err)]]
       /\ UNCHANGED <<clock, k, minPerWindow, requests, accepts, IsRejectedError, opts, history, mutex, calls>>

\* t.m.Lock() of reject
RejectLock(c) ==
    /\ call[c].pc = "reject"
    /\ mutex = Free
    /\ mutex' = c
    /\ call' = [call EXCEPT ![c].pc = "rejecting"]
    /\ UNCHANGED <<clock, k, minPerWindow, requests, accepts, IsRejectedError, opts, history, calls>>

\* t.requests[p].add(now, 1); t.m.Unlock(). After a local rejection the
\* fallback is called next, or the sentinel returned
RejectAdd(c) ==
    LET cl == call[c]
        ops == reject(cl.priority, cl.now)
    IN /\ cl.pc = "rejecting"
       /\ requests' = ApplyAdds(requests, "requests", ops)
       /\ mutex' = Unlock(c)
       /\ call' = [call EXCEPT ![c] =
             [cl EXCEPT !.adds = @ \o ops,
                        !.pc = IF cl.local /\ FallbackSupplied(cl)
                               THEN "fallback" ELSE "done",
                        !.fbCalls = IF cl.local /\ FallbackSupplied(cl)
                                    THEN @ + 1 ELSE @,
                        !.ret = IF cl.local
                                THEN DefaultClientSideRejectionError ELSE @]]
       /\ UNCHANGED <<clock, k, minPerWindow, accepts, IsRejectedError, opts, history, calls>>

\* fallbackFn[0](ctx) returns
FallbackReturn(c, fbRet) ==
    LET cl == call[c]
    IN /\ cl.pc = "fallback"
       /\ call' = [call EXCEPT ![c] =
             [cl EXCEPT !.pc = "done", !.fbRet = fbRet,
                        !.ret = LocalRejectResult(cl, fbRet)]]
       /\ UNCHANGED <<clock, k, minPerWindow, requests, accepts, IsRejectedError, opts, history, mutex, calls>>

\* t.m.Lock() of accept
AcceptLock(c) ==
    /\ call[c].pc = "accept"
    /\ mutex = Free
    /\ mutex' = c
    /\ call' = [call EXCEPT ![c].pc = "accepting"]
    /\ UNCHANGED <<clock, k, minPerWindow, requests, accepts, IsRejectedError, opts, history, calls>>

\* t.requests[p].add(now, 1) of accept
AcceptAddRequests(c) ==
    LET cl == call[c]
        ops == <<accept(cl.priority, cl.now)[1]>>
    IN /\ cl.pc = "accepting"
       /\ requests' = ApplyAdds(requests, "requests", ops)
       /\ call' = [call EXCEPT ![c].pc = "halfAccepted", ![c].adds = @ \o ops]
       /\ UNCHANGED <<clock, k, minPerWindow, accepts, IsRejectedError, opts, history, mutex, calls>>

\* t.accepts[p].add(now, 1); t.m.Unlock()
AcceptAddAccepts(c) ==
    LET cl == call[c]
        ops == <<accept(cl.priority, cl.now)[2]>>
    IN /\ cl.pc = "halfAccepted"
       /\ accepts' = ApplyAdds(accepts, "accepts", ops)
       /\ mutex' = Unlock(c)
       /\ call' = [call EXCEPT ![c].pc = "done", ![c].adds = @ \o ops]
       /\ UNCHANGED <<clock, k, minPerWindow, requests, IsRejectedError, opts, history, calls>>

\* the steps of the throttle itself in the goroutine of c: everything but
\* the caller's own Begin and Return and the return of fn and of the fallback
ThrottleStep(c) ==
    \/ ProbLock(c) \/ ProbReadOwn(c) \/ ProbPanic(c)
    \/ ProbReadHigher(c) \/ ProbUnlock(c)
    \/ \E r \in BOOLEAN : Draw(c, r)
    \/ \E e \in {Nil, ErrUnavailable} : Switch(c, e)
    \/ RejectLock(c) \/ RejectAdd(c)
    \/ AcceptLock(c) \/ AcceptAddRequests(c) \/ AcceptAddAccepts(c)

NextMutex ==
    \/ \E c \in Callers, def \in GivenPriorities, fb \in BOOLEAN :
          Begin(c, Background, def, fb, MaxCallsM)
    \/ \E c \in Callers : ProbLock(c)
    \/ \E c \in Callers : ProbReadOwn(c)
    \/ \E c \in Callers : ProbPanic(c)
    \/ \E c \in Callers : ProbReadHigher(c)
    \/ \E c \in Callers : ProbUnlock(c)
    \/ \E c \in Callers, r \in BOOLEAN : Draw(c, r)
    \/ \E c \in Callers : WorkReturn(c)
    \/ \E c \in Callers, e \in {Nil, ErrUnavailable} : Switch(c, e)
    \/ \E c \in Callers : RejectLock(c)
    \/ \E c \in Callers : RejectAdd(c)
    \/ \E c \in Callers : FallbackReturn(c, Nil)
    \/ \E c \in Callers : AcceptLock(c)
    \/ \E c \in Callers : AcceptAddRequests(c)
    \/ \E c \in Callers : AcceptAddAccepts(c)
    \/ \E c \in Callers : Return(c)

\* a goroutine that can take a step of the throttle takes it in the end; fn
\* and the fallback owe no return
SpecMutex ==
    InitW /\ [][NextMutex]_vars /\ \A c \in Callers : WF_vars(ThrottleStep(c))

\* c is inside the code of the throttle: neither idle, nor in fn or the
\* fallback, nor returned, nor ended by a panic
InThrottle(c) ==
    call[c].pc \notin {"idle", "work", "fallback", "done", "panicked"}

\* C26: the mutex is never held by a caller whose work function or fallback
\* runs, and a caller inside the throttle's own code always gets out of it,
\* to its work function, its fallback or its return, whatever the other
\* callers' work functions do.
C26_NeverBlocksCaller ==
    /\ [](\A c \in Callers : call[c].pc \in {"work", "fallback"} => mutex # c)
    /\ \A c \in Callers : InThrottle(c) ~> ~InThrottle(c)

\* the value a get at now gives on the counter named by the read op
CurrentValue(op, now) ==
    CounterGet(IF op.ctr = "requests" THEN requests[op.rank] ELSE accepts[op.rank],
               now)

\* C29: while a caller is between the reads of rejectionProbability it holds
\* the mutex, every value it has read is still the value of its counter, and
\* no other caller is between the requests add and the accepts add of an
\* accept.
C29_SingleSnapshot ==
    \A c \in Callers :
        call[c].pc = "loop" =>
            /\ mutex = c
            /\ \A n \in 1..Len(call[c].reads) :
                  call[c].reads[n].val = CurrentValue(call[c].reads[n], call[c].now)
            /\ \A d \in Callers \ {c} : call[d].pc # "halfAccepted"

C29_Witness ==
    \E c, d \in Callers :
        /\ c # d
        /\ call[c].pc = "loop" /\ call[c].priority = 1 /\ call[c].i = 1
        /\ Len(call[c].reads) = 4
        /\ call[c].reads[3].val > call[c].reads[4].val
        /\ call[d].pc \in {"accept", "reject"}

\* ------------------------------------------------- recovery specification
\* Distress and recovery inside one window: k >= 1, a positive minPerWindow,
\* work that fails with a distress error or succeeds, local rejections, and
\* a clock that stays within the window.
MaxCallsV == 3

InitRecovery == InitH /\ minPerWindow > 0

NextRecovery ==
    \/ Tick(1, MaxTime)
    \/ \E c \in Callers, def \in Ranks : Begin(c, Background, def, FALSE, MaxCallsV)
    \/ \E c \in Callers, r \in BOOLEAN : Decide(c, r)
    \/ \E c \in Callers : LocalReject(c, Nil)
    \/ \E c \in Callers : WorkReturn(c)
    \/ \E c \in Callers, e \in {Nil, ErrUnavailable} : Record(c, e)
    \/ \E c \in Callers : Return(c)

SpecRecovery == InitRecovery /\ [][NextRecovery]_vars

\* P_reject(p, t) on the counters after the step
PRejectNext(p, t) == rejectionProbability(requests', accepts', k, minPerWindow, p, t)

\* the step finishes the call of c
Finishes(c) == call[c].pc \in {"reject", "record"} /\ call'[c].pc = "done"

\* P_reject is 0 at every rank and read time where requests <= k * accepts
ZeroOnceCaughtUp ==
    \A p \in Ranks : \A t \in ReadTimes :
        EffectiveRequests(p, t) <= k * AcceptsAt(p, t) => IsZero(PReject(p, t))

\* C27 as stated: no finished call other than one with a distress outcome
\* raises P_reject at any rank, local rejections included, and P_reject is 0
\* once requests <= k * accepts.
C27_RecoveryMonotone ==
    /\ []ZeroOnceCaughtUp
    /\ [][\A c \in Callers :
            (Finishes(c) /\ call'[c].err = Nil) =>
                \A q \in Ranks : ProbLeq(PRejectNext(q, clock), PReject(q, clock))]_vars

\* C27, amended: a call that is admitted and succeeds raises P_reject at no
\* rank (k >= 1); a call rejected locally lowers it at no rank; and P_reject
\* is 0 once requests <= k * accepts.
C27_SuccessNeverRaises ==
    /\ []ZeroOnceCaughtUp
    /\ [][\A c \in Callers : \A q \in Ranks :
            /\ (Finishes(c) /\ ~call'[c].local /\ call'[c].err = Nil) =>
                  ProbLeq(PRejectNext(q, clock), PReject(q, clock))
            /\ (Finishes(c) /\ call'[c].local) =>
                  ProbLeq(PReject(q, clock), PRejectNext(q, clock))]_vars

C27_Witness ==
    \E c \in Callers :
        LET p == call[c].priority
        IN /\ call[c].pc = "done" /\ ~call[c].local /\ call[c].err = Nil
           /\ CounterGet(accepts[p], clock) >= 1
           /\ CounterGet(requests[p], clock) > CounterGet(accepts[p], clock)
           /\ ~IsZero(PReject(p, clock))

\* the adds the call of c made on the counter array called name
AddsOn(c, name) == {i \in 1..Len(call[c].adds) : call[c].adds[i].ctr = name}

\* C28: a call that has returned made exactly one requests add and at most one
\* accepts add, all at the rank it resolved from its context and its default
\* priority, on every path; a call that has not recorded yet made none.
C28_OneRequestAtMostOneAccept ==
    \A c \in Callers :
        /\ Cardinality(AddsOn(c, "requests")) = IF call[c].pc = "done" THEN 1 ELSE 0
        /\ Cardinality(AddsOn(c, "accepts")) <= Cardinality(AddsOn(c, "requests"))
        /\ Len(call[c].adds) =
              Cardinality(AddsOn(c, "requests")) + Cardinality(AddsOn(c, "accepts"))
        /\ \A i \in 1..Len(call[c].adds) :
              call[c].adds[i].rank = PriorityFromContext(call[c].ctx, call[c].def)

C28_Witness ==
    \E c, d \in Callers :
        /\ call[c].pc = "done" /\ call[c].err = ErrUnavailable
        /\ Len(call[c].adds) = 1
        /\ call[d].pc = "done" /\ call[d].err = ErrStandard
        /\ call[d].ctx # Background
        /\ Len(call[d].adds) = 2

\* the unaccepted traffic of rank i on the counters after the step
UnacceptedAtNext(i, t) == CounterGet(requests'[i], t) - CounterGet(accepts'[i], t)

\* C30: across a step that leaves requests[p] and accepts[p] as they read at t
\* and lowers the unaccepted traffic of no more important rank, P_reject(p, t)
\* does not go down.
C30_MonotoneInHigherPressure ==
    [][\A p \in Ranks : \A t \in ReadTimes :
          (/\ CounterGet(requests'[p], t) = CounterGet(requests[p], t)
           /\ CounterGet(accepts'[p], t) = CounterGet(accepts[p], t)
           /\ \A i \in 0..(p - 1) : UnacceptedAtNext(i, t) >= UnacceptedAt(i, t))
          => ProbLeq(PReject(p, t), PRejectNext(p, t))]_vars

\* the counters with every rank less important than p put back to the
\* counters of a new throttle
ForgetBelow(ctr, p) ==
    [i \in Ranks |-> IF i <= p THEN ctr[i] ELSE newWindowedCounter(0)]

\* C31: P_reject(p, t) is the same on the counters as they are and on
\* counters that agree with them at the ranks i <= p only: it does not depend
\* on any less important rank, and P_reject(0, t) depends on rank 0 alone.
C31_OnlyOwnAndHigherRanks ==
    \A p \in Ranks : \A t \in ReadTimes :
        PReject(p, t) =
            rejectionProbability(ForgetBelow(requests, p), ForgetBelow(accepts, p),
                                 k, minPerWindow, p, t)

C31_Witness ==
    \E t \in ReadTimes :
        /\ CounterGet(requests[1], t) > CounterGet(accepts[1], t)
        /\ CounterGet(requests[0], t) > 0
        /\ PReject(0, t) # PReject(1, t)
        /\ ~IsZero(PReject(0, t))

\* ------------------------------------------------- distress specification
\* A backend in distress inside one window: every admitted work invocation
\* returns a distress error, plain or wrapped; calls come with and without
\* fallback at any rank, under the default ratio and a positive minPerWindow.
MaxCallsD == 3
MinPerWindowChoicesD == {1, 2}
DistressErrors == {ErrUnavailable, RejectedError(ErrUnavailable)}

InitDistress ==
    /\ clock = 0
    /\ k \in KChoices
    /\ minPerWindow \in MinPerWindowChoicesD
    /\ requests = [p \in Ranks |-> newWindowedCounter(0)]
    /\ accepts = [p \in Ranks |-> newWindowedCounter(0)]
    /\ IsRejectedError = "default"
    /\ call = [c \in Callers |-> IdleCall]
    /\ opts = DefaultOptions
    /\ mutex = Free
    /\ history = NoHistory
    /\ calls = 0

NextDistress ==
    \/ Tick(1, MaxTime)
    \/ \E c \in Callers, def \in Ranks, fb \in BOOLEAN :
          Begin(c, Background, def, fb, MaxCallsD)
    \/ \E c \in Callers, r \in BOOLEAN : Decide(c, r)
    \/ \E c \in Callers : LocalReject(c, Nil)
    \/ \E c \in Callers : WorkReturn(c)
    \/ \E c \in Callers, e \in DistressErrors : Record(c, e)
    \/ \E c \in Callers : Return(c)

SpecDistress == InitDistress /\ [][NextDistress]_vars

\* the calls that have finished: started and no longer in flight
FinishedCalls ==
    calls - Cardinality({c \in Callers :
                            call[c].pc \in {"decide", "reject", "work", "record"}})

\* x < y for probabilities that are numbers
ProbLess(x, y) == x.den > 0 /\ y.den > 0 /\ x.num * y.den < y.num * x.den

\* in every state no accept is recorded, and when the n finished calls were
\* all of rank p, requests[p] = n and P_reject(p) = n / (n + minPerWindow)
ShedRatio ==
    \A p \in Ranks : \A t \in ReadTimes :
        /\ CounterGet(accepts[p], t) = 0
        /\ (\A q \in Ranks \ {p} : CounterGet(requests[q], t) = 0) =>
              /\ CounterGet(requests[p], t) = FinishedCalls
              /\ PReject(p, t).den > 0
              /\ PReject(p, t).num * (FinishedCalls + minPerWindow)
                    = FinishedCalls * PReject(p, t).den

\* C32: with every admitted work invocation in distress, after n calls of
\* rank p, admitted or rejected locally, requests[p] = n, accepts[p] = 0 and
\* P_reject(p) = n / (n + minPerWindow); every call that finishes, a locally
\* rejected one included, raises P_reject at its rank.
C32_ShedUnderDistress ==
    /\ []ShedRatio
    /\ [][\A c \in Callers :
            Finishes(c) =>
                ProbLess(PReject(call[c].priority, clock),
                         PRejectNext(call[c].priority, clock))]_vars

C32_Witness ==
    \E c \in Callers, p \in Ranks :
        /\ call[c].pc = "done" /\ call[c].local /\ call[c].priority = p
        /\ FinishedCalls = MaxCallsD
        /\ CounterGet(requests[p], clock) = MaxCallsD
        /\ PReject(p, clock).num * (MaxCallsD + minPerWindow)
              = MaxCallsD * PReject(p, clock).den

\* the start time of bucket i of the counter c: the head bucket starts at
\* c.last, the others one bucket width earlier each
BucketStart(c, i) == c.last - ((c.head - i) % Buckets) * Width

\* every increment c holds is at least one full window older than t
NothingWithinWindow(c, t) ==
    \A i \in BucketIdx :
        c.buckets[i] # 0 => t - BucketStart(c, i) >= Buckets * Width

\* no request is counted for rank p or a more important rank at t
ZeroTraffic(p, t) == \A i \in 0..p : CounterGet(requests[i], t) = 0

\* C33: with zero traffic inside the window P_reject is 0 and the call is
\* admitted, on a new throttle and after any history; and a counter whose
\* increments are all a full window old reads 0.
C33_ZeroTrafficAdmits ==
    /\ \A p \in Ranks : \A t \in ReadTimes :
          /\ ZeroTraffic(p, t) => IsZero(PReject(p, t))
          /\ NothingWithinWindow(requests[p], t) => CounterGet(requests[p], t) = 0
          /\ NothingWithinWindow(accepts[p], t) => CounterGet(accepts[p], t) = 0
    /\ \A c \in Callers :
          (call[c].pc = "decide" /\ ZeroTraffic(call[c].priority, call[c].now)) =>
              ~CanDrawBelow(PReject(call[c].priority, call[c].now))

\* ------------------------------------------------ counter specification
\* One windowedCounter, requests[0], driven directly through add and get at
\* any times up to MaxTimeC, in any order, so that a time may be earlier than
\* one the counter has seen before.
MaxOpsC == 4
\* the n of add
AddAmounts == {1, 2}

\* add(t, n): the increment lands in the head bucket after rotation, whose
\* start-time is the counter's last
CounterAddStep(t, n) ==
    /\ calls < MaxOpsC
    /\ calls' = calls + 1
    /\ LET r == CounterAdd(requests[0], t, n) IN
       /\ requests' = [requests EXCEPT ![0] = r]
       /\ history' = [history EXCEPT ![r.last] = @ + n]
    /\ UNCHANGED <<clock, k, minPerWindow, accepts, IsRejectedError, opts, mutex, call>>

\* get(t): rotates, then sums
CounterGetStep(t) ==
    /\ calls < MaxOpsC
    /\ calls' = calls + 1
    /\ requests' = [requests EXCEPT ![0] = Rotate(@, t)]
    /\ UNCHANGED <<clock, k, minPerWindow, accepts, IsRejectedError, opts, history, mutex, call>>

NextCounter ==
    \/ \E t \in StartTimes, n \in AddAmounts : CounterAddStep(t, n)
    \/ \E t \in StartTimes : CounterGetStep(t)

SpecCounter == InitW /\ [][NextCounter]_vars

RECURSIVE AddedUpTo(_, _)
AddedUpTo(h, s) == IF s < 0 THEN 0 ELSE h[s] + AddedUpTo(h, s - 1)
\* the increments whose bucket start-time lies within (t - Buckets*Width, t]
AddedWithin(h, t) ==
    AddedUpTo(h, t) - AddedUpTo(h, t - Buckets * Width)

\* the later of t and the start of the head bucket
Latest(c, t) == IF t < c.last THEN c.last ELSE t

\* C34 as stated: at every time t, get(t) is exactly the sum of the
\* increments whose bucket start-time lies within the last Buckets bucket
\* widths before t.
C34_GetIsWindowSum ==
    \A t \in StartTimes : CounterGet(requests[0], t) = AddedWithin(history, t)

\* C34, amended: get(t) is exactly the sum of the increments whose bucket
\* start-time lies within the last Buckets bucket widths before t, or before
\* the start of the head bucket when t is earlier than that.
C34_GetIsWindowSumFromLatest ==
    \A t \in StartTimes :
        CounterGet(requests[0], t) = AddedWithin(history, Latest(requests[0], t))

\* increments were made more than a window apart and at a bucket in between:
\* the oldest has left the window at the time of the newest, the others not
C34_Witness ==
    \E s1, s2, s3 \in StartTimes :
        /\ s1 + Buckets * Width <= s3
        /\ s1 < s2 /\ s2 < s3 /\ s3 < s2 + Buckets * Width
        /\ history[s1] > 0 /\ history[s2] > 0 /\ history[s3] > 0
        /\ requests[0].last = s3
        /\ CounterGet(requests[0], s3) = history[s2] + history[s3]

\* the times earlier than the start of the head bucket of c
EarlierTimes(c) == 0..(c.last - 1)

\* add(t, n) and get(t) of c leave the head pointer and its start-time where
\* they are, add puts the increment into the head bucket and changes no other
\* bucket, and get reads what the counter holds
ToleratesRegression(c, t) ==
    LET r == CounterAdd(c, t, 1)
        g == Rotate(c, t)
    IN /\ r.head \in BucketIdx
       /\ r.head = c.head /\ r.last = c.last
       /\ r.buckets = [c.buckets EXCEPT ![c.head] = @ + 1]
       /\ g = c
       /\ CounterGet(c, t) = CounterValue(c)

\* C35: for every counter of the throttle and every time t earlier than the
\* start of its head bucket, add(t, n) and get(t) are defined, do not move the
\* head pointer backwards, and add attributes the increment to the current
\* head bucket.
C35_RegressionTolerated ==
    \A p \in Ranks :
        /\ \A t \in EarlierTimes(requests[p]) : ToleratesRegression(requests[p], t)
        /\ \A t \in EarlierTimes(accepts[p]) : ToleratesRegression(accepts[p], t)

\* a caller sampled Now(), another caller then read the counters at a later
\* time and has recorded nothing yet, and the first one recorded its outcome
\* at its earlier time: the increment is in the head bucket, which starts
\* later
C35_Witness ==
    \E c, o \in Callers :
        /\ c # o
        /\ call[c].pc = "done" /\ call[c].adds # <<>>
        /\ call[o].pc \in {"work", "record"} /\ call[o].adds = <<>>
        /\ LET a == call[c].adds[1]
               ctr == requests[a.rank]
           IN /\ a.ctr = "requests"
              /\ a.at < ctr.last
              /\ ctr.buckets[ctr.head] > 0

\* the head bucket of c is the one whose span [last, last + Width) holds t
HeadCovers(c, t) == c.last <= t /\ t < c.last + Width

\* while fn runs, and until the switch after it, the call has made no add
NothingWhileWorking ==
    \A c \in Callers : call[c].pc \in {"work", "record"} => call[c].adds = <<>>

\* the call of c is admitted: the counters are read, and none is added to
Admits(c) ==
    (call[c].pc = "decide" /\ call'[c].pc = "work") =>
        /\ requests' = RotatedUpTo(requests, call[c].priority, call[c].now)
        /\ accepts' = RotatedUpTo(accepts, call[c].priority, call[c].now)

\* fn returns: t1 is the clock at that moment, and no counter changes
SamplesT1(c) ==
    (call[c].pc = "work" /\ call'[c].pc = "record") =>
        /\ call'[c].now = clock
        /\ call'[c].now >= call[c].t0
        /\ requests' = requests /\ accepts' = accepts

\* the switch records at t1: one request, and at most one accept, through
\* add(t1, 1) on the counters of the call's rank
RecordsAtT1(c) ==
    (call[c].pc = "record" /\ call'[c].pc = "done") =>
        LET p == call[c].priority
            t1 == call[c].now
        IN /\ requests'[p] = CounterAdd(requests[p], t1, 1)
           /\ accepts'[p] \in {accepts[p], CounterAdd(accepts[p], t1, 1)}
           /\ \A i \in 1..Len(call'[c].adds) : call'[c].adds[i].at = t1

\* the increments are in the bucket whose span holds t1
LandsInBucketOfT1(c) ==
    (call[c].pc = "record" /\ call'[c].pc = "done") =>
        LET p == call[c].priority
            t1 == call[c].now
        IN /\ HeadCovers(requests'[p], t1)
           /\ accepts'[p] # accepts[p] => HeadCovers(accepts'[p], t1)

\* the same, but for a counter that another caller has moved to a bucket that
\* starts after t1: there the increments are in the head bucket
LandsInBucketOfT1OrHead(c) ==
    (call[c].pc = "record" /\ call'[c].pc = "done") =>
        LET p == call[c].priority
            t1 == call[c].now
        IN /\ HeadCovers(requests'[p], t1) \/ t1 < requests[p].last
           /\ accepts'[p] # accepts[p] =>
                 (HeadCovers(accepts'[p], t1) \/ t1 < accepts[p].last)

\* C36 as stated: on the admit path nothing is recorded while fn runs, t1 is
\* the clock when fn returns, the request and the accept are added at t1, and
\* they land in the bucket covering t1.
C36_RecordedAtCompletion ==
    /\ []NothingWhileWorking
    /\ [][\A c \in Callers :
            Admits(c) /\ SamplesT1(c) /\ RecordsAtT1(c) /\ LandsInBucketOfT1(c)]_vars

\* C36, amended: on the admit path nothing is recorded while fn runs, t1 is
\* the clock when fn returns, the request and the accept are added at t1, and
\* they land in the bucket covering t1 unless the counter is already at a
\* bucket that starts after t1, in which case they land in its head bucket.
C36_RecordedAtT1 ==
    /\ []NothingWhileWorking
    /\ [][\A c \in Callers :
            Admits(c) /\ SamplesT1(c) /\ RecordsAtT1(c) /\ LandsInBucketOfT1OrHead(c)]_vars

\* a slow call: fn returned a tick after the call began, and the request is
\* in the bucket of that later time
C36_Witness ==
    \E c \in Callers :
        /\ call[c].pc = "done" /\ ~call[c].local
        /\ call[c].now > call[c].t0
        /\ call[c].adds # <<>> /\ call[c].adds[1].at = call[c].now
        /\ LET ctr == requests[call[c].priority]
           IN HeadCovers(ctr, call[c].now) /\ ctr.buckets[ctr.head] > 0

\* the caller whose Throttle call takes the step
Steps(c) == call'[c] # call[c]

\* the resolved priority of the call that takes the step
StepPriority(c) == IF call[c].pc = "idle" THEN call'[c].priority ELSE call[c].priority

\* the time the call reads and writes the counters at
StepTime(c) == IF call[c].pc = "idle" THEN call'[c].now ELSE call[c].now

\* counter d is counter c, or c with the buckets that have left the window at
\* time t expired
SameButExpiry(c, d, t) == d = c \/ d = Rotate(c, t)

\* C37: a step of a Throttle call at resolved priority p leaves the counters
\* of every other rank as they were, apart from the expiry of buckets at the
\* time of the call, and no step changes k or minPerWindow.
C37_OnlyOwnRankChanges ==
    [][/\ k' = k /\ minPerWindow' = minPerWindow
       /\ \A c \in Callers : Steps(c) =>
             \A q \in Ranks \ {StepPriority(c)} :
                 /\ SameButExpiry(requests[q], requests'[q], StepTime(c))
                 /\ SameButExpiry(accepts[q], accepts'[q], StepTime(c))]_vars

\* the one call made so far ran at rank 1 a tick after construction and has
\* recorded its request: rank 0 holds nothing, and its head has moved with
\* the reading of that call
C37_Witness ==
    \E c \in Callers :
        /\ calls = 1
        /\ call[c].pc = "done" /\ call[c].priority = 1 /\ call[c].adds # <<>>
        /\ CounterValue(requests[1]) > 0
        /\ CounterValue(requests[0]) = 0 /\ CounterValue(accepts[0]) = 0
        /\ requests[0].last > 0
====